---- MODULE Spec2Model ----
(***************************************************************************)
(* The plan -> generate -> apply -> review loop of                         *)
(* .github/scripts/ai_staff_loop.py (function main and its helpers).       *)
(*                                                                         *)
(* Texts are sequences of tokens.  The answers of the three services and   *)
(* the exceptions their calls raise are the inputs of the model; the git   *)
(* commands act on a working tree described by the tracked files that      *)
(* differ from HEAD and the untracked files that were created.  The run    *)
(* starts on a clean checkout of HEAD, and the four documents the script   *)
(* writes (plan.md, patch.diff, verify.json, report.md) are kept apart     *)
(* from the tree.                                                          *)
(***************************************************************************)
EXTENDS Integers, Sequences, FiniteSets, TLC

\* Largest value of the environment's MAX_ITERS that is explored.
MaxIters == 3

VARIABLES
    MAX_ITERS,    \* int(os.getenv("MAX_ITERS", "5"))
    pc,           \* position of main()
    error,        \* the uncaught exception that ended main(), or "none"
    i,            \* loop variable of main()
    plan_md,      \* local plan_md
    diff,         \* local diff
    changed,      \* local changed
    verify_text,  \* local verify_text
    tree,         \* the git working tree, relative to HEAD
    plan_file,    \* content of plan.md
    patch_file,   \* content of patch.diff
    verify_file,  \* content of verify.json
    report_file,  \* content of report.md
    writes,       \* number of write_file calls per path
    calls         \* number of calls per service / git operation

vars == <<MAX_ITERS, pc, error, i, plan_md, diff, changed, verify_text, tree,
          plan_file, patch_file, verify_file, report_file, writes, calls>>

-----------------------------------------------------------------------------
(* JSON values *)

JStr(s) == [t |-> "str", v |-> s]

JArr(a) == [t |-> "arr", v |-> a]

JNull == [t |-> "null"]

\* dict.get(key, default)
Get(obj, key, default) == IF key \in DOMAIN obj THEN obj[key] ELSE default

\* Whether Python can iterate over the value (a for-clause over it).
Iterable(val) == val.t = "arr"

-----------------------------------------------------------------------------
(* Python string operations, on token sequences *)

Min(a, b) == IF a < b THEN a ELSE b

Max(a, b) == IF a > b THEN a ELSE b

\* str.find: 0-based index of the first occurrence, -1 when there is none.
Find(s, tok) ==
    IF \E k \in 1..Len(s) : s[k] = tok
    THEN (CHOOSE k \in 1..Len(s) : s[k] = tok /\ \A j \in 1..(k - 1) : s[j] # tok) - 1
    ELSE -1

\* str.rfind: 0-based index of the last occurrence, -1 when there is none.
RFind(s, tok) ==
    IF \E k \in 1..Len(s) : s[k] = tok
    THEN (CHOOSE k \in 1..Len(s) : s[k] = tok /\ \A j \in (k + 1)..Len(s) : s[j] # tok) - 1
    ELSE -1

\* One bound of a Python slice: negative counts from the end, then clamped.
SliceIndex(s, k) == IF k < 0 THEN Max(k + Len(s), 0) ELSE Min(k, Len(s))

\* s[a:b]
Slice(s, a, b) ==
    LET lo == SliceIndex(s, a)
        hi == SliceIndex(s, b)
    IN  IF lo >= hi THEN <<>> ELSE SubSeq(s, lo + 1, hi)

RECURSIVE LStrip(_)
LStrip(s) == IF s # <<>> /\ Head(s) = "ws" THEN LStrip(Tail(s)) ELSE s

RECURSIVE RStrip(_)
RStrip(s) ==
    IF s # <<>> /\ s[Len(s)] = "ws" THEN RStrip(SubSeq(s, 1, Len(s) - 1)) ELSE s

\* str.strip
Strip(s) == RStrip(LStrip(s))

DiffHeader == "diff --git"

\* Variant: any non-empty output is taken for a diff ("if diff:").
NonEmptyIsDiff(s) == s # <<>>

\* Variant: the header is looked for anywhere in the text ("diff --git" in diff).
ContainsDiffHeader(s) == \E k \in 1..Len(s) : s[k] = DiffHeader

\* diff.startswith("diff --git")
StartsWithDiffHeader(s) == s # <<>> /\ Head(s) = DiffHeader

-----------------------------------------------------------------------------
(* json.loads on the reviewer's text *)

\* The members a reviewer object is built from, one token each.
MemberTokens ==
    { "verdict=PASS", "verdict=NONPASS", "verdict=pass", "outcome=PASS",
      "required_changes=[r1]", "required_changes=[r1,r2]",
      "required_changes=[r2,r1]", "required_changes=null" }

MemberKey(tok) ==
    CASE tok \in {"verdict=PASS", "verdict=NONPASS", "verdict=pass"} -> "verdict"
      [] tok = "outcome=PASS" -> "outcome"
      [] OTHER -> "required_changes"

MemberValue(tok) ==
    CASE tok = "verdict=PASS" -> JStr("PASS")
      [] tok = "verdict=NONPASS" -> JStr("NONPASS")
      [] tok = "verdict=pass" -> JStr("pass")
      [] tok = "outcome=PASS" -> JStr("PASS")
      [] tok = "required_changes=[r1]" -> JArr(<<"r1">>)
      [] tok = "required_changes=[r1,r2]" -> JArr(<<"r1", "r2">>)
      [] tok = "required_changes=[r2,r1]" -> JArr(<<"r2", "r1">>)
      [] OTHER -> JNull

\* json.loads succeeds: one object, an opening brace, members, a closing brace.
JsonValid(s) ==
    /\ Len(s) >= 2
    /\ s[1] = "{"
    /\ s[Len(s)] = "}"
    /\ \A k \in 2..(Len(s) - 1) : s[k] \in MemberTokens

\* The dict of a sequence of members; a repeated key keeps its last value.
RECURSIVE Members(_)
Members(ms) ==
    IF ms = <<>>
    THEN <<>>
    ELSE LET last == ms[Len(ms)]
             rest == Members(SubSeq(ms, 1, Len(ms) - 1))
         IN  [k \in DOMAIN rest \cup {MemberKey(last)} |->
                 IF k = MemberKey(last) THEN MemberValue(last) ELSE rest[k]]

\* The value json.loads returns for a text it accepts.
JsonLoads(s) == Members(SubSeq(s, 2, Len(s) - 1))

InvalidJsonVerdict ==
    [verdict |-> JStr("NONPASS"),
     reasons |-> JArr(<<"Reviewer output was not valid JSON">>),
     required_changes |-> JArr(<<>>)]

\* The try/except around the extraction of the reviewer's object.
ParseVerdict(text) ==
    LET start == Find(text, "{")
        end == RFind(text, "}")
        body == Slice(text, start, end + 1)
    IN  IF JsonValid(body) THEN JsonLoads(body) ELSE InvalidJsonVerdict

NoDiffVerdict ==
    [verdict |-> JStr("NONPASS"), reason |-> JStr("Codex did not return a unified diff")]

PatchFailedVerdict ==
    [verdict |-> JStr("NONPASS"), reason |-> JStr("Patch failed to apply")]

-----------------------------------------------------------------------------
(* git on the working tree *)

\* Files of the HEAD revision.
Tracked == {"a", "c"}

\* `git diff --name-only` lists names in this order.
FileOrder == <<"a", "c">>

\* The tree of HEAD: no tracked file differs, no untracked file exists.
Baseline == [modified |-> {}, untracked |-> {}]

HunkTokens == {"modify a", "modify c", "create b", "modify a (stale context)"}

Hunk(tok) ==
    CASE tok = "modify a" -> [op |-> "modify", file |-> "a", context |-> "ok"]
      [] tok = "modify c" -> [op |-> "modify", file |-> "c", context |-> "ok"]
      [] tok = "create b" -> [op |-> "create", file |-> "b", context |-> "ok"]
      [] OTHER -> [op |-> "modify", file |-> "a", context |-> "stale"]

\* A hunk written against HEAD applies to a tracked file that still has HEAD's
\* content; a file is created only where none of that name exists.
HunkApplies(t, h) ==
    IF h.op = "modify"
    THEN h.file \in Tracked /\ h.context = "ok" /\ h.file \notin t.modified
    ELSE h.file \notin Tracked /\ h.file \notin t.untracked

\* `git apply` exits 0: the text is a patch and every hunk applies.
GitApplyOk(t, d) ==
    /\ Len(d) >= 2
    /\ d[1] = DiffHeader
    /\ \A k \in 2..Len(d) : d[k] \in HunkTokens /\ HunkApplies(t, Hunk(d[k]))

\* `git apply --whitespace=nowarn patch.diff`: all hunks or none. Created
\* files are not added to the index: they are untracked.
GitApply(t, d) ==
    IF GitApplyOk(t, d)
    THEN [modified |-> t.modified \cup
                        {Hunk(d[k]).file : k \in {j \in 2..Len(d) : Hunk(d[j]).op = "modify"}},
          untracked |-> t.untracked \cup
                        {Hunk(d[k]).file : k \in {j \in 2..Len(d) : Hunk(d[j]).op = "create"}}]
    ELSE t

\* `git reset --hard`: tracked files go back to HEAD; untracked files stay.
GitResetHard(t) == [t EXCEPT !.modified = {}]

\* sh("git diff --name-only") or "(none)": untracked files are not listed.
GitDiffNameOnly(t) ==
    LET names == SelectSeq(FileOrder, LAMBDA f : f \in t.modified)
    IN  IF names = <<>> THEN <<"(none)">> ELSE names

-----------------------------------------------------------------------------
(* What the three services may answer *)

\* call_claude's return value for the planning request; no check is made on it.
PlanTexts == { <<>>, <<"plan">> }

\* The joined output_text blocks of the generation response, before strip().
GenTexts ==
    { <<>>,
      <<"prose">>,
      <<"prose", "diff --git", "modify a">>,
      <<"ws", "diff --git", "modify a", "ws">>,
      <<"diff --git", "modify c">>,
      <<"diff --git", "create b">>,
      <<"diff --git", "modify c", "create b">>,
      <<"diff --git", "modify c", "modify a (stale context)">>,
      <<"diff --git", "prose">> }

\* call_claude's return value for the review request.
ReviewTexts ==
    { <<>>,
      <<"prose">>,
      <<"{", "verdict=PASS">>,
      <<"}", "verdict=PASS", "{">>,
      <<"prose", "}">>,
      <<"{", "verdict=PASS", "}">>,
      <<"prose", "{", "verdict=PASS", "}", "prose">>,
      <<"{", "verdict=PASS", "}", "prose", "{", "verdict=NONPASS", "}">>,
      <<"{", "verdict=NONPASS", "}">>,
      <<"{", "verdict=NONPASS", "required_changes=[r1]", "}">>,
      <<"{", "verdict=NONPASS", "required_changes=[r1,r2]", "}">>,
      <<"{", "verdict=NONPASS", "required_changes=[r2,r1]", "}">>,
      <<"{", "verdict=NONPASS", "required_changes=null", "}">>,
      <<"{", "}">>,
      <<"{", "verdict=pass", "}">>,
      <<"{", "outcome=PASS", "}">> }

-----------------------------------------------------------------------------
(* The documents *)

Paths == {"plan.md", "patch.diff", "verify.json", "report.md"}

\* write_file(path, ...) counted in the per-path write counter w.
Written(w, path) == [w EXCEPT ![path] = @ + 1]

Services == {"planning", "generation", "reset", "apply", "review"}

Called(c, svc) == [c EXCEPT ![svc] = @ + 1]

\* Variant: the feedback lines come out in reverse order.
RECURSIVE BulletsReversed(_)
BulletsReversed(required) ==
    IF required = <<>>
    THEN <<>>
    ELSE BulletsReversed(Tail(required)) \o <<"-", Head(required)>>

\* The "- x" lines of the feedback section, one per required change, in order.
RECURSIVE Bullets(_)
Bullets(required) ==
    IF required = <<>> THEN <<>> ELSE <<"-", Head(required)>> \o Bullets(Tail(required))

\* Variant: the feedback section replaces the plan instead of extending it.
ReplaceByFeedback(plan, required) ==
    <<"---", "## Reviewer required changes">> \o Bullets(required)

\* plan_md + "\n\n---\n\n## Reviewer required changes\n" + "\n".join(...)
AppendFeedback(plan, required) ==
    plan \o <<"---", "## Reviewer required changes">> \o Bullets(required)

\* The report of the PASS branch.
PassReport(iter, plan, files) ==
    [Verdict |-> [outcome |-> "PASS", iteration |-> iter],
     Plan |-> plan,
     ChangedFiles |-> files,
     Notes |-> <<"patch.diff", "verify.json">>]

\* The report written after the loop.
ExhaustedReport(max, plan) ==
    [Verdict |-> [outcome |-> "NONPASS", exhausted |-> max],
     LastPlan |-> plan,
     ReviewerDetails |-> <<"verify.json">>]

-----------------------------------------------------------------------------
(* main() *)

Init ==
    /\ MAX_ITERS \in -1..MaxIters
    /\ pc = "PLANNING"
    /\ error = "none"
    /\ i = 0
    /\ plan_md = <<>>
    /\ diff = <<>>
    /\ changed = <<>>
    /\ verify_text = <<>>
    /\ tree = Baseline
    /\ plan_file = <<>>
    /\ patch_file = <<>>
    /\ verify_file = <<>>
    /\ report_file = <<>>
    /\ writes = [p \in Paths |-> 0]
    /\ calls = [s \in Services |-> 0]

\* Variant: the planning call sits inside the loop and is made again before each
\* further iteration.
ContinueReplanning(w, plan) ==
    IF i + 1 <= MAX_ITERS
    THEN /\ pc' = IF i = 0 THEN "GENERATE" ELSE "PLANNING"
         /\ i' = i + 1
         /\ report_file' = report_file
         /\ writes' = w
    ELSE /\ pc' = "EXHAUSTED"
         /\ i' = i
         /\ report_file' = ExhaustedReport(MAX_ITERS, plan)
         /\ writes' = Written(w, "report.md")

\* Variant: the report of exhaustion is built from the plan as it was before the
\* caller's update.
ContinueStalePlan(w, plan) ==
    IF i + 1 <= MAX_ITERS
    THEN /\ pc' = "GENERATE"
         /\ i' = i + 1
         /\ report_file' = report_file
         /\ writes' = w
    ELSE /\ pc' = "EXHAUSTED"
         /\ i' = i
         /\ report_file' = ExhaustedReport(MAX_ITERS, plan_md)
         /\ writes' = Written(w, "report.md")

\* Variant: the report is written at the end of every iteration.
ContinueReportingEachTime(w, plan) ==
    /\ report_file' = ExhaustedReport(MAX_ITERS, plan)
    /\ writes' = Written(w, "report.md")
    /\ IF i + 1 <= MAX_ITERS
       THEN pc' = "GENERATE" /\ i' = i + 1
       ELSE pc' = "EXHAUSTED" /\ i' = i

\* The for statement takes its next value, or the loop ends and the report of
\* exhaustion is written. w is the write counter after the caller's own writes,
\* plan the value of plan_md at that point.
Continue(w, plan) ==
    IF i + 1 <= MAX_ITERS
    THEN /\ pc' = "GENERATE"
         /\ i' = i + 1
         /\ report_file' = report_file
         /\ writes' = w
    ELSE /\ pc' = "EXHAUSTED"
         /\ i' = i
         /\ report_file' = ExhaustedReport(MAX_ITERS, plan)
         /\ writes' = Written(w, "report.md")

\* An exception leaves main(): nothing after the raising statement runs.
Raise(exc) ==
    /\ pc' = "ABORTED"
    /\ error' = exc

\* plan_md = call_claude(...); write_file("plan.md", plan_md); enter the loop.
Plan ==
    /\ pc = "PLANNING"
    /\ \E text \in PlanTexts :
          /\ plan_md' = text
          /\ plan_file' = text
    /\ calls' = Called(calls, "planning")
    /\ Continue(Written(writes, "plan.md"), plan_md')
    /\ UNCHANGED <<MAX_ITERS, error, diff, changed, verify_text, tree,
                   patch_file, verify_file>>

\* Variant: the exception of the planning call is caught and the loop is entered
\* with no plan.
PlanRaisesContinues ==
    /\ pc = "PLANNING"
    /\ calls' = Called(calls, "planning")
    /\ error' = "planning transport error"
    /\ pc' = "GENERATE"
    /\ i' = 1
    /\ UNCHANGED <<MAX_ITERS, plan_md, diff, changed, verify_text, tree,
                   plan_file, patch_file, verify_file, report_file, writes>>

\* requests.post or raise_for_status raises in the planning call.
PlanRaises ==
    /\ pc = "PLANNING"
    /\ calls' = Called(calls, "planning")
    /\ Raise("planning transport error")
    /\ UNCHANGED <<MAX_ITERS, i, plan_md, diff, changed, verify_text, tree,
                   plan_file, patch_file, verify_file, report_file, writes>>

\* Variant: the no-diff branch continues without writing verify.json.
NoDiffBranchSilent ==
    /\ verify_file' = verify_file
    /\ Continue(writes, plan_md)

\* The branch taken when the output is not a diff: verify.json, continue.
NoDiffBranch ==
    /\ verify_file' = NoDiffVerdict
    /\ Continue(Written(writes, "verify.json"), plan_md)

\* diff = call_openai_codex(codex_prompt) and the startswith test.
Generate ==
    /\ pc = "GENERATE"
    /\ calls' = Called(calls, "generation")
    /\ \E text \in GenTexts : diff' = Strip(text)
    /\ IF StartsWithDiffHeader(diff')
       THEN /\ pc' = "RESET"
            /\ UNCHANGED <<i, verify_file, report_file, writes>>
       ELSE NoDiffBranch
    /\ UNCHANGED <<MAX_ITERS, error, plan_md, changed, verify_text, tree,
                   plan_file, patch_file>>

\* requests.post or raise_for_status raises in the generation call.
GenerateRaises ==
    /\ pc = "GENERATE"
    /\ calls' = Called(calls, "generation")
    /\ Raise("generation transport error")
    /\ UNCHANGED <<MAX_ITERS, i, plan_md, diff, changed, verify_text, tree,
                   plan_file, patch_file, verify_file, report_file, writes>>

\* sh("git reset --hard")
Reset ==
    /\ pc = "RESET"
    /\ tree' = GitResetHard(tree)
    /\ calls' = Called(calls, "reset")
    /\ pc' = "APPLY"
    /\ UNCHANGED <<MAX_ITERS, error, i, plan_md, diff, changed, verify_text,
                   plan_file, patch_file, verify_file, report_file, writes>>

\* Variant: the failure branch lacks its continue and falls through to the review.
PatchFailedFallsThrough ==
    /\ verify_file' = PatchFailedVerdict
    /\ changed' = GitDiffNameOnly(tree')
    /\ pc' = "REVIEW"
    /\ writes' = Written(Written(writes, "patch.diff"), "verify.json")
    /\ UNCHANGED <<i, report_file>>

\* The branch taken when apply_patch returns False: verify.json, continue.
PatchFailedBranch ==
    /\ verify_file' = PatchFailedVerdict
    /\ changed' = changed
    /\ Continue(Written(Written(writes, "patch.diff"), "verify.json"), plan_md)

\* Variant: patch.diff is kept only for a patch that applied.
ApplyKeepingPatchOnSuccess ==
    /\ pc = "APPLY"
    /\ patch_file' = IF GitApplyOk(tree, diff) THEN diff ELSE patch_file
    /\ tree' = GitApply(tree, diff)
    /\ calls' = Called(calls, "apply")
    /\ IF GitApplyOk(tree, diff)
       THEN /\ changed' = GitDiffNameOnly(tree')
            /\ pc' = "REVIEW"
            /\ writes' = Written(writes, "patch.diff")
            /\ UNCHANGED <<i, verify_file, report_file>>
       ELSE PatchFailedBranch
    /\ UNCHANGED <<MAX_ITERS, error, plan_md, diff, verify_text, plan_file>>

\* ok = apply_patch(diff), the failure branch, and the git diff calls.
Apply ==
    /\ pc = "APPLY"
    /\ patch_file' = diff
    /\ tree' = GitApply(tree, diff)
    /\ calls' = Called(calls, "apply")
    /\ IF GitApplyOk(tree, diff)
       THEN /\ changed' = GitDiffNameOnly(tree')
            /\ pc' = "REVIEW"
            /\ writes' = Written(writes, "patch.diff")
            /\ UNCHANGED <<i, verify_file, report_file>>
       ELSE PatchFailedBranch
    /\ UNCHANGED <<MAX_ITERS, error, plan_md, diff, verify_text, plan_file>>

\* Variant: the PASS branch lacks its report and its return; the loop goes on.
PassBranchNoReturn(w) ==
    /\ Continue(w, plan_md)
    /\ UNCHANGED <<error, plan_md, plan_file>>

\* The PASS branch: report.md, return. w counts the write of verify.json.
PassBranch(w) ==
    /\ report_file' = PassReport(i, plan_md, changed)
    /\ writes' = Written(w, "report.md")
    /\ pc' = "PASS_DONE"
    /\ UNCHANGED <<error, i, plan_md, plan_file>>

\* The statements after the PASS test: the feedback section, plan.md, next
\* iteration; the for-clause over a value that is no list raises TypeError.
FeedbackBranch(w, required) ==
    IF Iterable(required)
    THEN /\ plan_md' = AppendFeedback(plan_md, required.v)
         /\ plan_file' = plan_md'
         /\ Continue(Written(w, "plan.md"), plan_md')
         /\ error' = error
    ELSE /\ Raise("TypeError")
         /\ writes' = w
         /\ UNCHANGED <<i, plan_md, plan_file, report_file>>

\* The review call, the parse, verify.json, and the branch on the verdict.
Review ==
    /\ pc = "REVIEW"
    /\ calls' = Called(calls, "review")
    /\ \E text \in ReviewTexts : verify_text' = text
    /\ verify_file' = ParseVerdict(verify_text')
    /\ IF Get(verify_file', "verdict", JNull) = JStr("PASS")
       THEN PassBranch(Written(writes, "verify.json"))
       ELSE FeedbackBranch(Written(writes, "verify.json"),
                           Get(verify_file', "required_changes", JArr(<<>>)))
    /\ UNCHANGED <<MAX_ITERS, diff, changed, tree, patch_file>>

\* requests.post or raise_for_status raises in the review call.
ReviewRaises ==
    /\ pc = "REVIEW"
    /\ calls' = Called(calls, "review")
    /\ Raise("review transport error")
    /\ UNCHANGED <<MAX_ITERS, i, plan_md, diff, changed, verify_text, tree,
                   plan_file, patch_file, verify_file, report_file, writes>>

Next ==
    \/ Plan
    \/ PlanRaises
    \/ Generate
    \/ GenerateRaises
    \/ Reset
    \/ Apply
    \/ Review
    \/ ReviewRaises

Spec == Init /\ [][Next]_vars

\* The states of the controller.
State == IF pc \in {"GENERATE", "RESET", "APPLY", "REVIEW"} THEN "ITERATING" ELSE pc

-----------------------------------------------------------------------------
(* Properties *)

Terminal == {"PASS_DONE", "EXHAUSTED"}

\* s is an initial segment of t.
IsPrefix(s, t) == Len(s) <= Len(t) /\ SubSeq(t, 1, Len(s)) = s

\* The step is a review call that returned (the call did not raise).
ReviewReturned == pc = "REVIEW" /\ error' # "review transport error"

\* The loop goes on after iteration i: next iteration, or exhaustion after the last.
Proceeds ==
    IF i < MAX_ITERS
    THEN pc' = "GENERATE" /\ i' = i + 1
    ELSE pc' = "EXHAUSTED"

\* C1: if the review of iteration N (1 <= N <= MAX_ITERS) yields a verdict whose
\* outcome is PASS, the run ends in iteration N in state PASS_DONE with a report
\* stating "PASS (iteration N)", and from PASS_DONE no service or git call and no
\* other step is ever made.
C1_PassTerminatesAtIteration ==
    [][ /\ (ReviewReturned /\ Get(verify_file', "verdict", JNull) = JStr("PASS"))
            => /\ pc' = "PASS_DONE"
               /\ 1 <= i /\ i <= MAX_ITERS /\ i' = i
               /\ report_file'.Verdict = [outcome |-> "PASS", iteration |-> i]
        /\ pc = "PASS_DONE" => (calls' = calls /\ pc' = pc) ]_vars

C1_Witness ==
    /\ pc = "PASS_DONE"
    /\ i = 2
    /\ verify_file["verdict"] = JStr("PASS")
    /\ report_file.Verdict = [outcome |-> "PASS", iteration |-> 2]

\* C2: when the generation output (after strip) does not begin with the diff
\* header, the iteration makes no reset, apply or review call, leaves tree and
\* patch.diff alone, records the verdict NONPASS with the reason "Codex did not
\* return a unified diff", and the loop proceeds.
C2_NoDiffSkipsPatchAndReview ==
    [][ (pc = "GENERATE" /\ error' = "none"
            /\ (diff' = <<>> \/ Head(diff') # "diff --git"))
        => /\ calls'["reset"] = calls["reset"]
           /\ calls'["apply"] = calls["apply"]
           /\ calls'["review"] = calls["review"]
           /\ tree' = tree
           /\ patch_file' = patch_file
           /\ verify_file' = [verdict |-> JStr("NONPASS"),
                              reason |-> JStr("Codex did not return a unified diff")]
           /\ Proceeds ]_vars

C2_Witness ==
    /\ pc = "GENERATE"
    /\ i = 2
    /\ diff = <<"prose", "diff --git", "modify a">>
    /\ verify_file = NoDiffVerdict
    /\ calls["reset"] = 0

\* C3: when git apply fails, the verdict NONPASS with the reason "Patch failed to
\* apply" is recorded, no review call is made in that iteration, and the loop
\* proceeds.
C3_ApplyFailureSkipsReview ==
    [][ (pc = "APPLY" /\ ~GitApplyOk(tree, diff))
        => /\ verify_file' = [verdict |-> JStr("NONPASS"),
                              reason |-> JStr("Patch failed to apply")]
           /\ calls'["review"] = calls["review"]
           /\ Proceeds ]_vars

C3_Witness ==
    /\ pc = "GENERATE"
    /\ i = 2
    /\ patch_file = <<"diff --git", "modify c", "modify a (stale context)">>
    /\ verify_file = PatchFailedVerdict
    /\ calls["apply"] = 1
    /\ calls["review"] = 0

\* C4: after an apply attempt that fails, the working tree is identical to the
\* baseline revision.
C4_FailedApplyLeavesBaseline ==
    [][ (pc = "APPLY" /\ ~GitApplyOk(tree, diff)) => tree' = Baseline ]_vars

\* C5: in every reachable state the working tree is the baseline or the baseline
\* plus exactly one patch, the one last submitted for application.
C5_TreeHoldsAtMostOnePatch ==
    tree = Baseline \/ tree = GitApply(Baseline, patch_file)

\* C6: the plan is append-only: every step leaves the earlier plan text as a
\* prefix of the current one.
C6_PlanAppendOnly == [][ IsPrefix(plan_md, plan_md') ]_vars

C6_Witness ==
    /\ writes["plan.md"] = 3
    /\ Len(plan_md) > 5
    /\ plan_md[1] = "plan"

\* C7: the run enters EXHAUSTED only after all MAX_ITERS iterations were made, and
\* the report then records "NONPASS (exhausted MAX_ITERS iterations)" and holds
\* the final plan in full, the feedback section of the last iteration included.
C7_ExhaustedReportHoldsFinalPlan ==
    [][ pc' = "EXHAUSTED"
        => /\ calls'["generation"] = Max(MAX_ITERS, 0)
           /\ report_file'.Verdict = [outcome |-> "NONPASS", exhausted |-> MAX_ITERS]
           /\ report_file'.LastPlan = plan_md'
           /\ (pc = "REVIEW" =>
                 /\ IsPrefix(plan_md, report_file'.LastPlan)
                 /\ Len(report_file'.LastPlan) >= Len(plan_md) + 2) ]_vars

C7_Witness ==
    /\ pc = "EXHAUSTED"
    /\ MAX_ITERS = 2
    /\ calls["review"] = 2
    /\ report_file.LastPlan =
          <<"plan", "---", "## Reviewer required changes", "-", "r1",
            "---", "## Reviewer required changes", "-", "r2", "-", "r1">>

\* C8: a timeout or transport error of the generation call or of the review call
\* never ends the run.
C8_ServiceErrorNeverEndsRun ==
    error \notin {"generation transport error", "review transport error"}

\* C9: after the review step the verdict is well-formed with outcome PASS or
\* NONPASS for every reviewer response; when the text has no object to extract
\* the verdict is the synthetic NONPASS with an empty list of required changes.
C9_VerdictAlwaysWellFormed ==
    [][ ReviewReturned
        => /\ Get(verify_file', "verdict", JNull) \in {JStr("PASS"), JStr("NONPASS")}
           /\ (Find(verify_text', "{") = -1 \/ RFind(verify_text', "}") = -1)
                 => /\ verify_file'["verdict"] = JStr("NONPASS")
                    /\ verify_file'["required_changes"] = JArr(<<>>) ]_vars

\* C10: the report is written exactly once in a run that reaches PASS_DONE or
\* EXHAUSTED, and not at all before: the number of writes of report.md is 1 in
\* the terminal states and 0 in every other state.
C10_ReportWrittenOnceAtTerminal ==
    writes["report.md"] = IF pc \in Terminal THEN 1 ELSE 0

C10_Witness ==
    /\ pc = "EXHAUSTED"
    /\ i = 3
    /\ writes["report.md"] = 1
    /\ writes["verify.json"] = 3

\* C11: in both terminal states the report holds the outcome, the last plan and
\* the last changed-file list of the working tree (stated for the runs that made
\* at least one iteration).
C11_ReportHoldsOutcomePlanAndChangedFiles ==
    (pc \in Terminal /\ calls["generation"] >= 1)
    => /\ "Verdict" \in DOMAIN report_file
       /\ Get(report_file, "Plan", Get(report_file, "LastPlan", <<"(no plan)">>)) = plan_md
       /\ "ChangedFiles" \in DOMAIN report_file
       /\ report_file["ChangedFiles"] = GitDiffNameOnly(tree)

\* C12: when the planning call raises, the run ends at once: the step leads from
\* PLANNING to the end of main() with one planning call and no other call, no
\* document written and the tree untouched, and no step follows it.
C12_PlanningFailureEndsRun ==
    [][ error' = "planning transport error"
        => /\ pc = "PLANNING"
           /\ pc' = "ABORTED"
           /\ calls' = [s \in Services |-> IF s = "planning" THEN 1 ELSE 0]
           /\ writes' = [p \in Paths |-> 0]
           /\ tree' = Baseline ]_vars

C12_Witness ==
    /\ pc = "ABORTED"
    /\ error = "planning transport error"
    /\ calls["planning"] = 1
    /\ writes["report.md"] = 0

TransportErrors ==
    {"planning transport error", "generation transport error", "review transport error"}

\* C13: when no call raises, a run that has stopped is in PASS_DONE or EXHAUSTED
\* (every other state has a next step), and at most MAX_ITERS generation calls
\* were made.
C13_RunEndsOnlyInTerminalStates ==
    error \notin TransportErrors
    => /\ pc \in Terminal \/ ENABLED Next
       /\ calls["generation"] <= Max(MAX_ITERS, 0)

\* C14: MAX_ITERS is strictly positive in every run that enters the loop or
\* reaches EXHAUSTED, and EXHAUSTED is reached only after a generation call.
C14_ExhaustedOnlyWithPositiveMaxIters ==
    pc \in {"GENERATE", "RESET", "APPLY", "REVIEW", "EXHAUSTED"}
    => /\ MAX_ITERS > 0
       /\ pc = "EXHAUSTED" => calls["generation"] >= 1

\* The step ends iteration i without an exception: by continue, by the end of
\* the loop body, or by the return of the PASS branch.
EndsIteration ==
    /\ pc \in {"GENERATE", "APPLY", "REVIEW"}
    /\ pc' \in {"GENERATE", "EXHAUSTED", "PASS_DONE"}

\* The generation output of the iteration was accepted as a diff.
GotDiff(d) == d # <<>> /\ Head(d) = "diff --git"

\* C15: every iteration overwrites verify.json, on all three paths: the step that
\* ends an iteration writes it once, the verdict written is that iteration's own
\* (no diff, patch failed, or the reviewer's parsed answer), and the number of
\* writes equals the number of iterations ended.
C15_VerdictDocumentIsOfThisIteration ==
    [][ EndsIteration
        => /\ writes'["verify.json"] = i
           /\ writes["verify.json"] = i - 1
           /\ verify_file' =
                 CASE pc = "GENERATE" -> NoDiffVerdict
                   [] pc = "APPLY" -> PatchFailedVerdict
                   [] OTHER -> ParseVerdict(verify_text') ]_vars

C15_Witness ==
    /\ pc = "GENERATE"
    /\ i = 3
    /\ calls["review"] = 1
    /\ calls["apply"] = 1
    /\ verify_file = NoDiffVerdict
    /\ writes["verify.json"] = 2
    /\ writes["plan.md"] = 2

\* C16: at the end of every iteration patch.diff holds the text the generation
\* call returned in that iteration, accepted as a diff or not, applied or not.
C16_PatchDocumentIsOfThisIteration ==
    [][ EndsIteration => patch_file' = diff' ]_vars

\* C16 as amended: every iteration whose output is accepted as a diff overwrites
\* patch.diff with that diff, whether or not it applies; an iteration whose
\* output is not a diff leaves patch.diff as it was.
C16_PatchDocumentIsLastSubmittedDiff ==
    [][ /\ pc = "APPLY" => patch_file' = diff
        /\ EndsIteration
              => patch_file' = IF GotDiff(diff') THEN diff' ELSE patch_file ]_vars

C16_Witness ==
    /\ pc = "GENERATE"
    /\ i = 3
    /\ diff = <<"diff --git", "modify c", "modify a (stale context)">>
    /\ patch_file = diff
    /\ verify_file = PatchFailedVerdict
    /\ calls["review"] = 1
    /\ writes["patch.diff"] = 2

C18_PlanningCalledOnce ==
    /\ calls["planning"] = IF pc = "PLANNING" THEN 0 ELSE 1
    /\ pc = "PLANNING" => calls["generation"] = 0

C18_Witness ==
    /\ pc = "EXHAUSTED"
    /\ calls["planning"] = 1
    /\ calls["generation"] = 3
    /\ calls["apply"] = 3
    /\ calls["review"] = 0

\* C19: PASS_DONE is reached only through an iteration whose output was a diff
\* that applied and whose review returned PASS; in PASS_DONE the tree is exactly
\* the baseline plus that diff, patch.diff holds that diff and verify.json holds
\* the PASS verdict.
C19_PassDoneHoldsExactlyThePassedDiff ==
    pc = "PASS_DONE"
    => /\ GotDiff(diff)
       /\ patch_file = diff
       /\ Get(verify_file, "verdict", JNull) = JStr("PASS")
       /\ GitApplyOk(Baseline, diff)
       /\ tree = GitApply(Baseline, diff)

\* C20: the tree is changed only by the reset and apply steps of an iteration
\* whose output was a diff; every other step, the end of a no-diff iteration
\* included, leaves it as it was.
C20_TreeChangedOnlyByResetAndApply ==
    [][ tree' # tree => (pc \in {"RESET", "APPLY"} /\ GotDiff(diff)) ]_vars

\* C20's case: the run is exhausted after a no-diff iteration and the tree still
\* holds the patch of an earlier iteration whose verdict was NONPASS.
C20_Witness ==
    /\ pc = "EXHAUSTED"
    /\ i = 2
    /\ ~GotDiff(diff)
    /\ verify_file = NoDiffVerdict
    /\ patch_file = <<"diff --git", "modify c">>
    /\ tree = GitApply(Baseline, patch_file)
    /\ calls["review"] = 1

====
